---- MODULE Spec2Model ----
(***************************************************************************)
(* The image-restore-lab client component and its enhancement pipeline.    *)
(*                                                                         *)
(* Two revisions of the ImageEnhancer component are modelled:              *)
(*   "canvas"  - enhanceImage, which upscales and brightens the image on   *)
(*               a local canvas (resizeImageIfNeeded, enhanceImageCanvas); *)
(*   "remote"  - processImage, which posts the image and an operation to   *)
(*               the enhance-image function and shows what it returns      *)
(*               (the revision with eight operations; the one with seven   *)
(*               differs in the operations array only).                    *)
(* A behaviour of Spec is one browser session of one revision: the user's  *)
(* actions interleaved with the asynchronous signals the handlers await.   *)
(* Each action is one task of the event loop: a handler together with the  *)
(* microtask continuations that follow it, up to the next awaited signal.  *)
(* SpecTransform follows the body of enhanceImageCanvas pixel by pixel,    *)
(* and SpecRelay the enhance-image function serving one request.           *)
(***************************************************************************)
EXTENDS Integers, Sequences, FiniteSets, TLC

VARIABLES
    variant,            \* which revision of the component this session runs
    disk,               \* the files the user can pick in this session
    originalImage,      \* useState: data URL of the uploaded file, or Null
    enhancedImage,      \* useState: the published result, or NoResult
    isProcessing,       \* useState
    selectedOperation,  \* useState (remote revision)
    readers,            \* FileReaders whose readAsDataURL has not completed
    runs,               \* invocations of enhanceImage / processImage
    toast,              \* the notification last passed to toast()
    phase,              \* enhanceImageCanvas: where its body is
    surface,            \* enhanceImageCanvas: the pixels of its canvas
    data,               \* enhanceImageCanvas: imageData.data
    i,                  \* enhanceImageCanvas: index of the filter loop
    canvas,             \* enhanceImageCanvas: width and height of its canvas
    outputs,            \* the images enhanceImageCanvas has resolved with
    request,            \* enhance-image: the request being served
    apiKey,             \* enhance-image: Deno.env.get("LOVABLE_API_KEY")
    relay               \* enhance-image: the handler serving the request

uiVars == <<variant, disk, originalImage, enhancedImage, isProcessing,
            selectedOperation, readers, runs, toast>>
canvasVars == <<phase, surface, data, i, canvas, outputs>>
relayVars == <<request, apiKey, relay>>
vars == <<variant, disk, originalImage, enhancedImage, isProcessing,
          selectedOperation, readers, runs, toast, phase, surface, data, i,
          canvas, outputs, request, apiKey, relay>>

-----------------------------------------------------------------------------
(* Bounds of the model *)

\* FileReaders that may be reading at the same time.
MaxReaders == 1
\* Invocations of enhanceImage / processImage that may be live at once.
MaxRuns == 2

-----------------------------------------------------------------------------
(* Program constants *)

\* resizeImageIfNeeded(img, 1024), and the size check of enhanceImage.
maxSize == 1024
\* canvas.width = img.width * 2
upscaleFactor == 2

-----------------------------------------------------------------------------
(* Files and images *)

\* File.type as its characters, so that startsWith is computed, not assumed.
ImagePng == <<"i","m","a","g","e","/","p","n","g">>
ImageJpeg == <<"i","m","a","g","e","/","j","p","e","g">>
TextPlain == <<"t","e","x","t","/","p","l","a","i","n">>
NoType == <<>>
ImagePrefix == <<"i","m","a","g","e","/">>

\* file.type.startsWith(prefix)
StartsWith(s, prefix) ==
    /\ Len(s) >= Len(prefix)
    /\ SubSeq(s, 1, Len(prefix)) = prefix

\* A file: its MIME type, whether its bytes decode as a raster image, and
\* the natural size of that image.
File(type, ok, w, h) == [type |-> type, ok |-> ok, w |-> w, h |-> h]

Null == [type |-> NoType, ok |-> FALSE, w |-> -1, h |-> -1]

\* Widths and heights: around the 1024 limit, the two scenarios of the
\* specification (500x300, 2000x1000), a tie of the rounding (2048 x 1) and
\* aspect ratios whose short side rounds to zero (2049 x 1).
Dims == {1, 300, 500, 1000, maxSize, maxSize + 1, 2000, 2 * maxSize, 2 * maxSize + 1}

Images == {File(ImagePng, TRUE, w, h) : w \in Dims, h \in Dims}

\* A session with several files: two images, one of them oversized, one
\* whose resized copy has no pixels, a corrupt image and two non-images.
SmallDisk ==
    { File(ImagePng, TRUE, 500, 300),
      File(ImageJpeg, TRUE, 2000, 1000),
      File(ImagePng, TRUE, 2 * maxSize + 1, 1),
      File(ImagePng, FALSE, 0, 0),
      File(TextPlain, FALSE, 0, 0),
      File(NoType, TRUE, 500, 300) }

\* The files of a session of the remote revision, which never decodes them.
RemoteDisk ==
    { File(ImagePng, TRUE, 500, 300),
      File(ImageJpeg, TRUE, 2000, 1000),
      File(TextPlain, FALSE, 0, 0) }

\* type Operation (part_001) and the operations array the buttons are made from.
operations ==
    {"enhance", "colorize", "removebg", "upscale", "denoise", "sharpen",
     "brighten", "removecrack"}

-----------------------------------------------------------------------------
(* Results and invocations *)

\* What setEnhancedImage receives: the data URL made by enhanceImageCanvas
\* (a PNG of w x h) or the enhancedImageUrl of the response, with the image
\* and operation of the invocation that made it.
Result(kind, from, op, w, h) ==
    [kind |-> kind, from |-> from, op |-> op, w |-> w, h |-> h]

NoResult == Result("null", Null, "enhance", -1, -1)

\* The HTMLImageElement img of enhanceImage: which source it holds, its
\* width and height, and whether a load event has fired for that source.
NoImg == [src |-> "none", width |-> 0, height |-> 0, loaded |-> FALSE]

\* One invocation: where it is suspended, the originalImage of its closure,
\* its operation, its locals, the canvases it created, the stages it
\* entered, the toasts it showed and where it failed.
IdleRun ==
    [pc |-> "idle", src |-> Null, op |-> "enhance", img |-> NoImg,
     resized |-> [w |-> -1, h |-> -1], canvases |-> 0, status |-> 0,
     stages |-> <<>>, toasts |-> <<>>, result |-> NoResult, failedAt |-> "none"]

Active(run) ==
    run.pc \in {"awaitDecode", "awaitResized", "awaitFetch", "awaitBody"}

-----------------------------------------------------------------------------
(* Toasts *)

Toast(title, kind) == [title |-> title, variant |-> kind]

NoToast == Toast("", "default")
InvalidFileToast == Toast("Invalid file type", "destructive")

operationLabels ==
    [enhance |-> "AI Enhancement", colorize |-> "Colorization",
     removebg |-> "Background Removal", upscale |-> "Upscaling",
     denoise |-> "Denoising", sharpen |-> "Sharpening",
     brighten |-> "Brightening", removecrack |-> "Crack Removal"]

StartedToast(op) ==
    IF variant = "canvas"
    THEN Toast("Processing started", "default")
    ELSE Toast(operationLabels[op] \o " started", "default")

CompleteToast ==
    IF variant = "canvas"
    THEN Toast("Enhancement complete!", "default")
    ELSE Toast("Processing complete!", "default")

FailedToast ==
    IF variant = "canvas"
    THEN Toast("Enhancement failed", "destructive")
    ELSE Toast("Processing failed", "destructive")

-----------------------------------------------------------------------------
(* Sizes *)

\* Math.round(n / d) for n >= 0, d > 0: the nearest integer, halves upwards.
MathRound(n, d) == (2 * n + d) \div (2 * d)

\* Mutant: the short side is cut off (Math.floor) instead of rounded.
resizeImageIfNeededFloor(width, height, size) ==
    IF width > size \/ height > size
    THEN IF width > height
         THEN [w |-> size, h |-> (height * size) \div width]
         ELSE [w |-> (width * size) \div height, h |-> size]
    ELSE [w |-> width, h |-> height]

\* The width and height resizeImageIfNeeded gives its canvas.
resizeImageIfNeeded(width, height, size) ==
    IF width > size \/ height > size
    THEN IF width > height
         THEN [w |-> size, h |-> MathRound(height * size, width)]
         ELSE [w |-> MathRound(width * size, height), h |-> size]
    ELSE [w |-> width, h |-> height]

\* Mutant: only the width is scaled.
enhanceImageCanvasWidthOnly(img) ==
    [w |-> img.width * upscaleFactor, h |-> img.height]

\* The width and height enhanceImageCanvas gives its canvas.
enhanceImageCanvas(img) ==
    [w |-> img.width * upscaleFactor, h |-> img.height * upscaleFactor]

\* Mutant: the size check looks at the width only.
TooLargeWidthOnly(img) == img.width > maxSize

\* Mutant: an image of exactly 1024 on a side counts as too large.
TooLargeInclusive(img) == img.width >= maxSize \/ img.height >= maxSize

\* img.width > 1024 || img.height > 1024
TooLarge(img) == img.width > maxSize \/ img.height > maxSize

-----------------------------------------------------------------------------
(* The enhance-image function: requests and responses *)

\* The JavaScript value undefined (an absent property, an unset variable).
Undefined == "<undefined>"

\* !value for the strings and undefined handled here.
Falsy(value) == value \in {Undefined, ""}

\* A request: its method, whether req.json() can parse its body, and the
\* imageUrl and operation properties of the parsed body.
Request(method, parses, imageUrl, operation) ==
    [method |-> method, parses |-> parses, imageUrl |-> imageUrl,
     operation |-> operation]

NoRequest == Request("none", FALSE, Undefined, Undefined)

\* new Response(body, { status, headers }): the status (200 when not given),
\* the property and value of the JSON body (or no body), whether the
\* headers hold corsHeaders, and the Content-Type.
Response(status, property, value, cors, contentType) ==
    [status |-> status, property |-> property, value |-> value,
     cors |-> cors, contentType |-> contentType]

NoResponse == Response(0, "none", Undefined, FALSE, Undefined)

\* new Response(JSON.stringify({ [property]: value }),
\*              { status, headers: { ...corsHeaders, "Content-Type": "application/json" } })
JsonResponse(status, property, value) ==
    Response(status, property, value, TRUE, "application/json")

\* The handler: where it is suspended, the prompt and image it sent to the
\* gateway (text is Undefined when JSON.stringify left the property out),
\* the calls it made to the gateway, what the gateway answered, and the
\* response it returned.
IdleRelay ==
    [pc |-> "idle", prompt |-> Undefined, text |-> Undefined, url |-> Undefined,
     calls |-> 0, gateway |-> 0, image |-> Undefined, response |-> NoResponse]

-----------------------------------------------------------------------------
(* Initial state *)

Init ==
    /\ variant \in {"canvas", "remote"}
    /\ disk \in IF variant = "canvas"
                THEN {SmallDisk} \cup {{f} : f \in Images}
                ELSE {RemoteDisk}
    /\ originalImage = Null
    /\ enhancedImage = NoResult
    /\ isProcessing = FALSE
    /\ selectedOperation = "enhance"
    /\ readers = <<>>
    /\ runs = [r \in 1..MaxRuns |-> IdleRun]
    /\ toast = NoToast
    /\ phase = "none"
    /\ surface = <<>>
    /\ data = <<>>
    /\ i = 0
    /\ canvas = [w |-> 0, h |-> 0]
    /\ outputs = <<>>
    /\ request = NoRequest
    /\ apiKey = Undefined
    /\ relay = IdleRelay

-----------------------------------------------------------------------------
(* The user's actions *)

Remove(seq, k) == SubSeq(seq, 1, k - 1) \o SubSeq(seq, k + 1, Len(seq))

\* {!originalImage && ( ... onDrop={handleDrop} ... <input onChange={handleFileInput}/> )}
UploadAreaRendered == originalImage = Null

\* Mutant: the MIME type is not looked at.
handleFileAnyType(file) ==
    /\ UploadAreaRendered
    /\ file \in disk
    /\ Len(readers) < MaxReaders
    /\ readers' = Append(readers, file)
    /\ UNCHANGED <<variant, disk, originalImage, enhancedImage, isProcessing,
                   selectedOperation, runs, toast>>
    /\ UNCHANGED <<canvasVars, relayVars>>

\* handleDrop / handleFileInput -> handleFile(file)
handleFile(file) ==
    /\ UploadAreaRendered
    /\ file \in disk
    /\ IF ~StartsWith(file.type, ImagePrefix)
       THEN /\ toast' = InvalidFileToast
            /\ UNCHANGED readers
       ELSE /\ Len(readers) < MaxReaders
            /\ readers' = Append(readers, file)
            /\ UNCHANGED toast
    /\ UNCHANGED <<variant, disk, originalImage, enhancedImage, isProcessing,
                   selectedOperation, runs>>
    /\ UNCHANGED <<canvasVars, relayVars>>

\* reader.onload
ReaderLoad(k) ==
    /\ k \in 1..Len(readers)
    /\ originalImage' = readers[k]
    /\ enhancedImage' = NoResult
    /\ readers' = Remove(readers, k)
    /\ UNCHANGED <<variant, disk, isProcessing, selectedOperation, runs, toast>>
    /\ UNCHANGED <<canvasVars, relayVars>>

\* The read fails: the reader has no onerror handler.
ReaderError(k) ==
    /\ k \in 1..Len(readers)
    /\ readers' = Remove(readers, k)
    /\ UNCHANGED <<variant, disk, originalImage, enhancedImage, isProcessing,
                   selectedOperation, runs, toast>>
    /\ UNCHANGED <<canvasVars, relayVars>>

\* Mutant: Upload New also ends the processing state.
UploadNewStopsProcessing ==
    /\ originalImage # Null
    /\ originalImage' = Null
    /\ enhancedImage' = NoResult
    /\ selectedOperation' = "enhance"
    /\ isProcessing' = FALSE
    /\ UNCHANGED <<variant, disk, readers, runs, toast>>
    /\ UNCHANGED <<canvasVars, relayVars>>

\* The Upload New button, rendered inside {originalImage && ( ... )}.
UploadNew ==
    /\ originalImage # Null
    /\ originalImage' = Null
    /\ enhancedImage' = NoResult
    /\ selectedOperation' = "enhance"
    /\ UNCHANGED <<variant, disk, isProcessing, readers, runs, toast>>
    /\ UNCHANGED <<canvasVars, relayVars>>

-----------------------------------------------------------------------------
(* How an invocation ends *)

\* The slot a new invocation takes: the first one that is not live.
FreeSlot(r) ==
    /\ ~Active(runs[r])
    /\ \A q \in 1..(r - 1) : Active(runs[q])

\* Mutant: the success path returns before the finally block's effect.
PublishLeavesProcessing(r, run, result) ==
    /\ runs' = [runs EXCEPT ![r] =
                   [run EXCEPT !.pc = "done",
                               !.result = result,
                               !.stages = Append(@, "publish"),
                               !.toasts = Append(@, CompleteToast)]]
    /\ enhancedImage' = result
    /\ toast' = CompleteToast
    /\ UNCHANGED isProcessing

\* setEnhancedImage(result); toast(complete); finally setIsProcessing(false)
Publish(r, run, result) ==
    /\ runs' = [runs EXCEPT ![r] =
                   [run EXCEPT !.pc = "done",
                               !.result = result,
                               !.stages = Append(@, "publish"),
                               !.toasts = Append(@, CompleteToast)]]
    /\ enhancedImage' = result
    /\ toast' = CompleteToast
    /\ isProcessing' = FALSE

\* Mutant: the catch block falls back to the original image as the result.
FailPublishingOriginal(r, run, stage) ==
    /\ runs' = [runs EXCEPT ![r] =
                   [run EXCEPT !.pc = "failed",
                               !.failedAt = stage,
                               !.toasts = Append(@, FailedToast)]]
    /\ toast' = FailedToast
    /\ isProcessing' = FALSE
    /\ enhancedImage' = Result("canvas", run.src, run.op, run.src.w, run.src.h)

\* Mutant: the catch block only logs the error.
FailWithoutToast(r, run, stage) ==
    /\ runs' = [runs EXCEPT ![r] =
                   [run EXCEPT !.pc = "failed", !.failedAt = stage]]
    /\ isProcessing' = FALSE
    /\ UNCHANGED <<enhancedImage, toast>>

\* Mutant: setIsProcessing(false) at the end of the try block, not in finally.
FailWithoutFinally(r, run, stage) ==
    /\ runs' = [runs EXCEPT ![r] =
                   [run EXCEPT !.pc = "failed",
                               !.failedAt = stage,
                               !.toasts = Append(@, FailedToast)]]
    /\ toast' = FailedToast
    /\ UNCHANGED <<enhancedImage, isProcessing>>

\* catch (error) { toast(failed) } finally { setIsProcessing(false) }
Fail(r, run, stage) ==
    /\ runs' = [runs EXCEPT ![r] =
                   [run EXCEPT !.pc = "failed",
                               !.failedAt = stage,
                               !.toasts = Append(@, FailedToast)]]
    /\ toast' = FailedToast
    /\ isProcessing' = FALSE
    /\ UNCHANGED enhancedImage

-----------------------------------------------------------------------------
(* enhanceImage (canvas revision) *)

\* {originalImage && !enhancedImage && (<Button onClick={enhanceImage}
\*                                              disabled={isProcessing}>)}
EnhanceButtonEnabled ==
    /\ originalImage # Null
    /\ enhancedImage = NoResult
    /\ ~isProcessing

\* The click: enhanceImage up to its first await (img.src = originalImage).
enhanceImage(r) ==
    /\ variant = "canvas"
    /\ EnhanceButtonEnabled
    /\ FreeSlot(r)
    /\ originalImage # Null             \* if (!originalImage) return
    /\ isProcessing' = TRUE
    /\ toast' = StartedToast("enhance")
    /\ runs' = [runs EXCEPT ![r] =
                   [IdleRun EXCEPT !.pc = "awaitDecode",
                                   !.src = originalImage,
                                   !.stages = <<"decode">>,
                                   !.toasts = <<StartedToast("enhance")>>]]
    /\ UNCHANGED <<variant, disk, originalImage, enhancedImage,
                   selectedOperation, readers>>
    /\ UNCHANGED <<canvasVars, relayVars>>

\* await enhanceImageCanvas(img) and what follows it. The promise rejects
\* when the canvas cannot be used (getContext gives null, getImageData throws).
Transform(r, run) ==
    LET entered == [run EXCEPT !.stages = Append(@, "transform"),
                               !.canvases = @ + 1]
        size == enhanceImageCanvas(run.img)
    IN  \E thrown \in BOOLEAN :
            IF thrown
            THEN Fail(r, entered, "transform")
            ELSE Publish(r, entered,
                         Result("canvas", run.src, "enhance", size.w, size.h))

\* img.onload: the size check, then either the resize up to the await of
\* the resized copy's load, or the transform and the end of the invocation.
ImgLoad(r) ==
    /\ runs[r].pc = "awaitDecode"
    /\ runs[r].src.ok
    /\ LET run == [runs[r] EXCEPT !.img = [src |-> "original",
                                           width |-> runs[r].src.w,
                                           height |-> runs[r].src.h,
                                           loaded |-> TRUE]]
       IN  IF TooLarge(run.img)
           THEN LET entered == [run EXCEPT !.stages = Append(@, "resize"),
                                           !.canvases = @ + 1]
                IN  \E thrown \in BOOLEAN :
                        IF thrown
                        THEN Fail(r, entered, "resize")
                        ELSE /\ runs' = [runs EXCEPT ![r] =
                                   [entered EXCEPT
                                       !.pc = "awaitResized",
                                       !.resized = resizeImageIfNeeded(
                                           run.img.width, run.img.height, maxSize),
                                       !.stages = Append(@, "redecode")]]
                             /\ UNCHANGED <<enhancedImage, toast, isProcessing>>
           ELSE Transform(r, run)
    /\ UNCHANGED <<variant, disk, originalImage, selectedOperation, readers>>
    /\ UNCHANGED <<canvasVars, relayVars>>

\* Mutant: img.onerror = resolve, so a failed decode goes on to the transform.
ImgErrorResolves(r) ==
    /\ runs[r].pc = "awaitDecode"
    /\ Transform(r, runs[r])
    /\ UNCHANGED <<variant, disk, originalImage, selectedOperation, readers>>
    /\ UNCHANGED <<canvasVars, relayVars>>

\* Mutant: a failed decode also discards the uploaded image.
ImgErrorClearsOriginal(r) ==
    /\ runs[r].pc = "awaitDecode"
    /\ Fail(r, runs[r], "decode")
    /\ originalImage' = Null
    /\ UNCHANGED <<variant, disk, selectedOperation, readers>>
    /\ UNCHANGED <<canvasVars, relayVars>>

\* img.onerror
ImgError(r) ==
    /\ runs[r].pc = "awaitDecode"
    /\ Fail(r, runs[r], "decode")
    /\ UNCHANGED <<variant, disk, originalImage, selectedOperation, readers>>
    /\ UNCHANGED <<canvasVars, relayVars>>

\* resizedImg.onload: img takes the resized copy as its source and the
\* resized copy's width and height, and is handed to enhanceImageCanvas.
\* A canvas without pixels encodes to "data:,", which never loads.
ResizedLoad(r) ==
    /\ runs[r].pc = "awaitResized"
    /\ runs[r].resized.w > 0
    /\ runs[r].resized.h > 0
    /\ Transform(r, [runs[r] EXCEPT !.img = [src |-> "resized",
                                             width |-> runs[r].resized.w,
                                             height |-> runs[r].resized.h,
                                             loaded |-> FALSE]])
    /\ UNCHANGED <<variant, disk, originalImage, selectedOperation, readers>>
    /\ UNCHANGED <<canvasVars, relayVars>>

\* resizedImg.onerror
ResizedError(r) ==
    /\ runs[r].pc = "awaitResized"
    /\ Fail(r, runs[r], "redecode")
    /\ UNCHANGED <<variant, disk, originalImage, selectedOperation, readers>>
    /\ UNCHANGED <<canvasVars, relayVars>>

-----------------------------------------------------------------------------
(* processImage (remote revision) *)

\* The statuses the enhance-image function answers with.
Statuses == {200, 400, 402, 429, 500}

\* Mutant: the operation buttons are not disabled while processing.
OperationButtonNeverDisabled == originalImage # Null

\* {originalImage && ( ... <Button onClick={() => processImage(op.id)}
\*                                 disabled={isProcessing}> ... )}
OperationButtonEnabled ==
    /\ originalImage # Null
    /\ ~isProcessing

\* The click: processImage up to await fetch(...).
processImage(r, operation) ==
    /\ variant = "remote"
    /\ OperationButtonEnabled
    /\ FreeSlot(r)
    /\ originalImage # Null             \* if (!originalImage) return
    /\ isProcessing' = TRUE
    /\ selectedOperation' = operation
    /\ toast' = StartedToast(operation)
    /\ runs' = [runs EXCEPT ![r] =
                   [IdleRun EXCEPT !.pc = "awaitFetch",
                                   !.src = originalImage,
                                   !.op = operation,
                                   !.stages = <<"fetch">>,
                                   !.toasts = <<StartedToast(operation)>>]]
    /\ UNCHANGED <<variant, disk, originalImage, enhancedImage, readers>>
    /\ UNCHANGED <<canvasVars, relayVars>>

\* fetch resolves with a response; both branches then await response.json().
FetchResolve(r, status) ==
    /\ runs[r].pc = "awaitFetch"
    /\ runs' = [runs EXCEPT ![r].pc = "awaitBody",
                            ![r].status = status,
                            ![r].stages = Append(@, "body")]
    /\ UNCHANGED <<variant, disk, originalImage, enhancedImage, isProcessing,
                   selectedOperation, readers, toast>>
    /\ UNCHANGED <<canvasVars, relayVars>>

\* fetch rejects (no response).
FetchReject(r) ==
    /\ runs[r].pc = "awaitFetch"
    /\ Fail(r, runs[r], "fetch")
    /\ UNCHANGED <<variant, disk, originalImage, selectedOperation, readers>>
    /\ UNCHANGED <<canvasVars, relayVars>>

\* response.ok
ResponseOk(status) == status >= 200 /\ status <= 299

\* response.json() resolves: throw on !response.ok, else publish.
BodyResolve(r) ==
    /\ runs[r].pc = "awaitBody"
    /\ IF ~ResponseOk(runs[r].status)
       THEN Fail(r, runs[r], "response")
       ELSE Publish(r, runs[r],
                    Result("remote", runs[r].src, runs[r].op, -1, -1))
    /\ UNCHANGED <<variant, disk, originalImage, selectedOperation, readers>>
    /\ UNCHANGED <<canvasVars, relayVars>>

\* response.json() rejects (the body is not JSON, or the connection drops).
BodyReject(r) ==
    /\ runs[r].pc = "awaitBody"
    /\ Fail(r, runs[r], "body")
    /\ UNCHANGED <<variant, disk, originalImage, selectedOperation, readers>>
    /\ UNCHANGED <<canvasVars, relayVars>>

-----------------------------------------------------------------------------
(* The session *)

\* The signals invocation r awaits.
Signal(r) ==
    \/ ImgLoad(r)
    \/ ImgError(r)
    \/ ResizedLoad(r)
    \/ ResizedError(r)
    \/ \E status \in Statuses : FetchResolve(r, status)
    \/ FetchReject(r)
    \/ BodyResolve(r)
    \/ BodyReject(r)

UserAction ==
    \/ \E file \in disk : handleFile(file)
    \/ UploadNew
    \/ \E r \in 1..MaxRuns : enhanceImage(r)
    \/ \E r \in 1..MaxRuns : \E operation \in operations : processImage(r, operation)

Next ==
    \/ \E file \in disk : handleFile(file)
    \/ \E k \in 1..MaxReaders : ReaderLoad(k)
    \/ \E k \in 1..MaxReaders : ReaderError(k)
    \/ UploadNew
    \/ \E r \in 1..MaxRuns : enhanceImage(r)
    \/ \E r \in 1..MaxRuns : ImgLoad(r)
    \/ \E r \in 1..MaxRuns : ImgError(r)
    \/ \E r \in 1..MaxRuns : ResizedLoad(r)
    \/ \E r \in 1..MaxRuns : ResizedError(r)
    \/ \E r \in 1..MaxRuns : \E operation \in operations : processImage(r, operation)
    \/ \E r \in 1..MaxRuns : \E status \in Statuses : FetchResolve(r, status)
    \/ \E r \in 1..MaxRuns : FetchReject(r)
    \/ \E r \in 1..MaxRuns : BodyResolve(r)
    \/ \E r \in 1..MaxRuns : BodyReject(r)

\* Every signal an invocation awaits arrives in the end.
Fairness == \A r \in 1..MaxRuns : WF_vars(Signal(r))

LiveSpec == Init /\ [][Next]_vars /\ Fairness

Spec == Init /\ [][Next]_vars

-----------------------------------------------------------------------------
(* The arithmetic of the filter loop                                       *)
(*                                                                         *)
(* data[i] * 1.1 + 10 is computed in IEEE 754 binary64 and stored into a   *)
(* Uint8ClampedArray. A double x >= 0 is held here as the integer          *)
(* x * 2^52, in three limbs of 21 bits (least significant first), because  *)
(* the model checker's integers have 32 bits.                              *)

Limb == 2 ^ 21

\* The limbs of a0 + a1 * 2^21 + a2 * 2^42 with the carries propagated.
Carry(a0, a1, a2) ==
    LET c0 == a0 \div Limb
        c1 == (a1 + c0) \div Limb
    IN  <<a0 % Limb, (a1 + c0) % Limb, a2 + c1>>

\* The integer n as a double: n * 2^52 = (n * 2^10) * 2^42.
DoubleOf(n) == <<0, 0, n * (2 ^ 10)>>

\* The literal 1.1: the double nearest to it, 4953959590107546 * 2^-52.
OnePointOne == <<1677722, 838860, 1126>>

RECURSIVE BitLength(_)
BitLength(n) == IF n = 0 THEN 0 ELSE 1 + BitLength(n \div 2)

Bits(x) ==
    IF x[3] > 0 THEN 42 + BitLength(x[3])
    ELSE IF x[2] > 0 THEN 21 + BitLength(x[2])
    ELSE BitLength(x[1])

\* Round to 53 significant bits, to nearest, ties to the even significand.
RoundToDouble(x) ==
    LET drop == Bits(x) - 53
    IN  IF drop <= 0
        THEN x
        ELSE LET unit == 2 ^ drop
                 low == x[1] % unit
                 odd == (x[1] \div unit) % 2 = 1
                 up == low * 2 > unit \/ (low * 2 = unit /\ odd)
             IN  Carry(x[1] - low + (IF up THEN unit ELSE 0), x[2], x[3])

\* c * y for an integer c in 0..255 and a double y.
DoubleTimes(c, y) == RoundToDouble(Carry(c * y[1], c * y[2], c * y[3]))

\* x + y
DoublePlus(x, y) == RoundToDouble(Carry(x[1] + y[1], x[2] + y[2], x[3] + y[3]))

\* x < y
DoubleLess(x, y) ==
    \/ x[3] < y[3]
    \/ x[3] = y[3] /\ x[2] < y[2]
    \/ x[3] = y[3] /\ x[2] = y[2] /\ x[1] < y[1]

\* Math.min(x, y)
MathMin(x, y) == IF DoubleLess(y, x) THEN y ELSE x

\* The conversion of a store into a Uint8ClampedArray (ToUint8Clamp): clamp
\* to 0..255, round to nearest, ties to the even integer.
ToUint8Clamp(x) ==
    LET f == x[3] \div (2 ^ 10)
        fraction == <<x[1], x[2], x[3] % (2 ^ 10)>>
        half == <<0, 0, 2 ^ 9>>
    IN  IF ~DoubleLess(x, DoubleOf(255)) THEN 255
        ELSE IF DoubleLess(half, fraction) THEN f + 1
        ELSE IF DoubleLess(fraction, half) THEN f
        ELSE IF f % 2 = 0 THEN f ELSE f + 1

\* Mutant: the store wraps modulo 256 (a Uint8Array) instead of clamping.
BrightenWrapping(c) ==
    (DoublePlus(DoubleTimes(c, OnePointOne), DoubleOf(10))[3] \div (2 ^ 10)) % 256

\* data[i] = Math.min(255, data[i] * 1.1 + 10)
Brighten(c) ==
    ToUint8Clamp(MathMin(DoubleOf(255),
                         DoublePlus(DoubleTimes(c, OnePointOne), DoubleOf(10))))

-----------------------------------------------------------------------------
(* The body of enhanceImageCanvas, on its own                              *)
(*                                                                         *)
(* SpecTransform starts where drawImage has filled the canvas with the     *)
(* resampled image and follows getImageData, the filter loop (one          *)
(* iteration an action) and putImageData. The canvas is followed on its    *)
(* first CanvasPixels pixels, four samples each (red, green, blue, alpha). *)
(* The image the promise resolves with can be handed to enhanceImageCanvas *)
(* again (drawImage).                                                      *)

\* Pixels of the canvas that the model follows.
CanvasPixels == 2
\* Times enhanceImageCanvas is applied, each time to its last result.
MaxPasses == 2

Alphas == {0, 128, 255}

\* The first pixel takes every value 0..255 in each colour channel.
SweepPixels ==
    {<<c, (c + 85) % 256, (c + 170) % 256, a>> : c \in 0..255, a \in Alphas}

\* The other pixels: opaque red, and a translucent pixel on three ties.
OtherPixels == {<<255, 0, 0, 255>>, <<15, 95, 215, 128>>}

\* The pixel of an image of one opaque colour: black, greys, white, red.
UniformPixels ==
    {<<c, c, c, 255>> : c \in {0, 128, 222, 230, 255}} \cup {<<255, 0, 0, 255>>}

RECURSIVE Flatten(_)
Flatten(pixels) ==
    IF pixels = <<>> THEN <<>> ELSE Head(pixels) \o Flatten(Tail(pixels))

Surfaces ==
    {first \o Flatten(rest) :
        first \in SweepPixels, rest \in [1..(CanvasPixels - 1) -> OtherPixels]}

UniformSurfaces ==
    {Flatten([k \in 1..CanvasPixels |-> pixel]) : pixel \in UniformPixels}

\* Every followed pixel has the colour of the first and is opaque.
Uniform(samples) ==
    /\ Len(samples) >= 4
    /\ samples[4] = 255
    /\ \A idx \in 1..Len(samples) : samples[idx] = samples[((idx - 1) % 4) + 1]

\* The width and height of the images handed to enhanceImageCanvas first.
ImageSizes == {[width |-> 2, height |-> 1], [width |-> 500, height |-> 300]}

InitTransform ==
    /\ variant = "canvas"
    /\ disk = {}
    /\ originalImage = Null
    /\ enhancedImage = NoResult
    /\ isProcessing = FALSE
    /\ selectedOperation = "enhance"
    /\ readers = <<>>
    /\ runs = [r \in 1..MaxRuns |-> IdleRun]
    /\ toast = NoToast
    /\ phase = "drawn"
    /\ surface \in Surfaces \cup UniformSurfaces
    /\ data = <<>>
    /\ i = 0
    /\ canvas \in {enhanceImageCanvas(img) : img \in ImageSizes}
    /\ outputs = <<>>
    /\ request = NoRequest
    /\ apiKey = Undefined
    /\ relay = IdleRelay

\* enhanceImageCanvas(img) on the image it resolved with last: a canvas of
\* twice that image's size, and the image drawn on it with smoothing. The
\* smoothing of an image of one opaque colour gives that colour again; what
\* it gives for other images depends on the browser and is not followed.
drawImage ==
    /\ phase = "put"
    /\ Len(outputs) < MaxPasses
    /\ Uniform(outputs[Len(outputs)].pixels)
    /\ phase' = "drawn"
    /\ canvas' = enhanceImageCanvas([width |-> outputs[Len(outputs)].w,
                                     height |-> outputs[Len(outputs)].h])
    /\ surface' = outputs[Len(outputs)].pixels
    /\ data' = <<>>
    /\ i' = 0
    /\ UNCHANGED outputs
    /\ UNCHANGED <<uiVars, relayVars>>

\* const imageData = ctx.getImageData(0, 0, canvas.width, canvas.height)
getImageData ==
    /\ phase = "drawn"
    /\ phase' = "filter"
    /\ data' = surface
    /\ i' = 0
    /\ UNCHANGED <<surface, canvas, outputs>>
    /\ UNCHANGED <<uiVars, relayVars>>

\* Mutant: the loop brightens the alpha sample as well.
FilterStepWithAlpha ==
    /\ phase = "filter"
    /\ i < Len(data)
    /\ data' = [data EXCEPT ![i + 1] = Brighten(@),
                            ![i + 2] = Brighten(@),
                            ![i + 3] = Brighten(@),
                            ![i + 4] = Brighten(@)]
    /\ i' = i + 4
    /\ UNCHANGED <<phase, surface, canvas, outputs>>
    /\ UNCHANGED <<uiVars, relayVars>>

\* One iteration of for (let i = 0; i < data.length; i += 4). data[i] of
\* the code is data[i + 1] here: sequences are indexed from 1.
FilterStep ==
    /\ phase = "filter"
    /\ i < Len(data)
    /\ data' = [data EXCEPT ![i + 1] = Brighten(@),
                            ![i + 2] = Brighten(@),
                            ![i + 3] = Brighten(@)]
    /\ i' = i + 4
    /\ UNCHANGED <<phase, surface, canvas, outputs>>
    /\ UNCHANGED <<uiVars, relayVars>>

\* Mutant: the filtered samples are not written back to the canvas.
putImageDataOmitted ==
    /\ phase = "filter"
    /\ ~(i < Len(data))
    /\ phase' = "put"
    /\ outputs' = Append(outputs, [w |-> canvas.w, h |-> canvas.h,
                                   pixels |-> surface])
    /\ UNCHANGED <<surface, data, i, canvas>>
    /\ UNCHANGED <<uiVars, relayVars>>

\* The loop ends: ctx.putImageData(imageData, 0, 0); resolve(canvas.toDataURL(png))
putImageData ==
    /\ phase = "filter"
    /\ ~(i < Len(data))
    /\ phase' = "put"
    /\ surface' = data
    /\ outputs' = Append(outputs, [w |-> canvas.w, h |-> canvas.h,
                                   pixels |-> data])
    /\ UNCHANGED <<data, i, canvas>>
    /\ UNCHANGED <<uiVars, relayVars>>

NextTransform ==
    \/ drawImage
    \/ getImageData
    \/ FilterStep
    \/ putImageData

SpecTransform == InitTransform /\ [][NextTransform]_vars

-----------------------------------------------------------------------------
(* The enhance-image function: the handler                                 *)
(*                                                                         *)
(* SpecRelay follows the handler of one request from serve's callback to   *)
(* the Response it returns, through each of its awaits: req.json(), the    *)
(* fetch of the gateway, and the reading of the gateway's reply.           *)

operationPrompts ==
    [
     enhance |->
       "Enhance this image to maximum quality and clarity. Make it sharper, increase resolution, improve colors and contrast, reduce noise and blur. The goal is to make the image look professional and crystal clear.",
     colorize |->
       "Colorize this black and white image. Add natural, realistic colors that match the scene and time period. Make it look like a naturally colored photograph with vibrant but realistic tones. Pay attention to skin tones, sky colors, and environmental details.",
     removebg |->
       "Remove the background from this image completely. Keep only the main subject in perfect focus and make the background completely transparent or white. Maintain all details of the subject.",
     upscale |->
       "Upscale this image to higher resolution with maximum quality. Add realistic details, improve texture definition, enhance sharpness and clarity. Make it look naturally high-resolution.",
     denoise |->
       "Remove all noise, grain, and artifacts from this image. Make it clean and smooth while preserving important details, edges, and sharpness. The result should look naturally clean.",
     sharpen |->
       "Sharpen this image significantly. Enhance edges, increase definition throughout, and improve overall clarity and crispness. Make details pop without creating artifacts.",
     brighten |->
       "Brighten and improve the lighting of this image. Enhance brightness, contrast, and exposure to make it more vibrant, clear and well-lit. Maintain natural color balance.",
     removecrack |->
       "Remove all cracks, scratches, tears, and damage from this image. Restore the image to perfect condition by intelligently filling in damaged areas. Preserve all original details while making the image look completely repaired and flawless."
    ]

\* The properties every object literal inherits from Object.prototype that
\* are followed here; each is a function.
ObjectPrototype == {"constructor", "toString", "valueOf", "hasOwnProperty"}

\* object[key] for an object literal: its own property, else the one
\* inherited from Object.prototype, else undefined.
Get(object, key) ==
    IF key \in DOMAIN object THEN object[key]
    ELSE IF key \in ObjectPrototype THEN "<function " \o key \o ">"
    ELSE Undefined

\* JSON.stringify of a property value: a function-valued property is left out.
Stringified(value) ==
    IF \E key \in ObjectPrototype : value = "<function " \o key \o ">"
    THEN Undefined
    ELSE value

\* operationPrompts[operation] || operationPrompts.enhance
Prompt(operation) ==
    IF ~Falsy(Get(operationPrompts, operation))
    THEN Get(operationPrompts, operation)
    ELSE operationPrompts.enhance

\* The data URL the client posts, and the URL of the image the gateway makes.
PostedImage == "data:image/png;base64,iVBORw0KGgo="
GatewayImage == "data:image/png;base64,ZW5oYW5jZWQ="

ImageUrls == {Undefined, "", PostedImage}

\* operation in the body: left out, one of the table's, not in the table,
\* empty, or the name of a property of Object.prototype.
Operations == operations \cup {Undefined, "rotate", "", "constructor", "toString"}

Requests ==
    {Request(method, FALSE, Undefined, Undefined) : method \in {"OPTIONS", "POST"}}
    \cup {Request(method, TRUE, imageUrl, operation) :
              method \in {"OPTIONS", "POST"}, imageUrl \in ImageUrls,
              operation \in Operations}

ApiKeys == {Undefined, "", "sk-lovable"}

\* The statuses the gateway answers with.
GatewayStatuses == {200, 201, 400, 402, 429, 500, 503}

\* error.message of what the awaited calls reject with.
ErrorMessages ==
    [json |-> "Unexpected end of JSON input",
     fetch |-> "error sending request",
     text |-> "error reading a body from connection",
     data |-> "Unexpected token in JSON"]

InitRelay ==
    /\ variant = "remote"
    /\ disk = {}
    /\ originalImage = Null
    /\ enhancedImage = NoResult
    /\ isProcessing = FALSE
    /\ selectedOperation = "enhance"
    /\ readers = <<>>
    /\ runs = [r \in 1..MaxRuns |-> IdleRun]
    /\ toast = NoToast
    /\ phase = "none"
    /\ surface = <<>>
    /\ data = <<>>
    /\ i = 0
    /\ canvas = [w |-> 0, h |-> 0]
    /\ outputs = <<>>
    /\ request \in Requests
    /\ apiKey \in ApiKeys
    /\ relay = IdleRelay

\* return new Response(...)
Respond(response) ==
    relay' = [relay EXCEPT !.pc = "responded", !.response = response]

\* Mutant: the catch block answers without the CORS headers.
CatchWithoutCors(message) ==
    Respond(Response(500, "error", message, FALSE, "application/json"))

\* catch (error) { return new Response({ error: error.message }, 500) }
Catch(message) == Respond(JsonResponse(500, "error", message))

\* serve's callback up to its first await.
serve ==
    /\ relay.pc = "idle"
    /\ request # NoRequest
    /\ IF request.method = "OPTIONS"
       THEN Respond(Response(200, "none", Undefined, TRUE, Undefined))
       ELSE relay' = [relay EXCEPT !.pc = "awaitJson"]
    /\ UNCHANGED <<request, apiKey>>
    /\ UNCHANGED <<uiVars, canvasVars>>

\* Mutant: the gateway is called before the API key is looked at.
ReqJsonFetchesFirst ==
    /\ relay.pc = "awaitJson"
    /\ IF ~request.parses
       THEN Catch(ErrorMessages.json)
       ELSE LET imageUrl == request.imageUrl
                operation == IF request.operation = Undefined
                             THEN "enhance" ELSE request.operation
            IN  IF Falsy(imageUrl)
                THEN Respond(JsonResponse(400, "error", "Image URL is required"))
                ELSE relay' = [relay EXCEPT
                                  !.pc = "awaitFetch",
                                  !.prompt = Prompt(operation),
                                  !.text = Stringified(Prompt(operation)),
                                  !.url = imageUrl,
                                  !.calls = @ + 1]
    /\ UNCHANGED <<request, apiKey>>
    /\ UNCHANGED <<uiVars, canvasVars>>

\* req.json() settles: the destructuring, the two checks, the prompt, and
\* the fetch of the gateway up to its await.
ReqJson ==
    /\ relay.pc = "awaitJson"
    /\ IF ~request.parses
       THEN Catch(ErrorMessages.json)
       ELSE LET imageUrl == request.imageUrl
                operation == IF request.operation = Undefined
                             THEN "enhance" ELSE request.operation
            IN  IF Falsy(imageUrl)
                THEN Respond(JsonResponse(400, "error", "Image URL is required"))
                ELSE IF Falsy(apiKey)
                THEN Catch("LOVABLE_API_KEY is not configured")
                ELSE relay' = [relay EXCEPT
                                  !.pc = "awaitFetch",
                                  !.prompt = Prompt(operation),
                                  !.text = Stringified(Prompt(operation)),
                                  !.url = imageUrl,
                                  !.calls = @ + 1]
    /\ UNCHANGED <<request, apiKey>>
    /\ UNCHANGED <<uiVars, canvasVars>>

\* Mutant: a 2xx status other than 200 is taken as a failure of the gateway.
GatewayResolveOnly200(status) ==
    /\ relay.pc = "awaitFetch"
    /\ IF status # 200
       THEN IF status = 429
            THEN relay' = [relay EXCEPT
                     !.pc = "responded",
                     !.gateway = status,
                     !.response = JsonResponse(429, "error",
                         "Rate limit exceeded. Please try again in a moment.")]
            ELSE IF status = 402
            THEN relay' = [relay EXCEPT
                     !.pc = "responded",
                     !.gateway = status,
                     !.response = JsonResponse(402, "error",
                         "AI credits depleted. Please add credits to continue.")]
            ELSE relay' = [relay EXCEPT !.pc = "awaitText", !.gateway = status]
       ELSE relay' = [relay EXCEPT !.pc = "awaitData", !.gateway = status]
    /\ UNCHANGED <<request, apiKey>>
    /\ UNCHANGED <<uiVars, canvasVars>>

\* The fetch resolves with the gateway's response.
GatewayResolve(status) ==
    /\ relay.pc = "awaitFetch"
    /\ IF ~ResponseOk(status)
       THEN IF status = 429
            THEN relay' = [relay EXCEPT
                     !.pc = "responded",
                     !.gateway = status,
                     !.response = JsonResponse(429, "error",
                         "Rate limit exceeded. Please try again in a moment.")]
            ELSE IF status = 402
            THEN relay' = [relay EXCEPT
                     !.pc = "responded",
                     !.gateway = status,
                     !.response = JsonResponse(402, "error",
                         "AI credits depleted. Please add credits to continue.")]
            ELSE relay' = [relay EXCEPT !.pc = "awaitText", !.gateway = status]
       ELSE relay' = [relay EXCEPT !.pc = "awaitData", !.gateway = status]
    /\ UNCHANGED <<request, apiKey>>
    /\ UNCHANGED <<uiVars, canvasVars>>

\* The fetch rejects: the gateway was not reached.
GatewayReject ==
    /\ relay.pc = "awaitFetch"
    /\ Catch(ErrorMessages.fetch)
    /\ UNCHANGED <<request, apiKey>>
    /\ UNCHANGED <<uiVars, canvasVars>>

\* await response.text() of a failed call settles.
GatewayText(read) ==
    /\ relay.pc = "awaitText"
    /\ IF read
       THEN Respond(JsonResponse(500, "error", "Failed to enhance image"))
       ELSE Catch(ErrorMessages.text)
    /\ UNCHANGED <<request, apiKey>>
    /\ UNCHANGED <<uiVars, canvasVars>>

\* await response.json() of a successful call resolves: image is
\* data.choices?.[0]?.message?.images?.[0]?.image_url?.url
GatewayData(image) ==
    /\ relay.pc = "awaitData"
    /\ IF Falsy(image)
       THEN Catch("No enhanced image returned from AI")
       ELSE relay' = [relay EXCEPT
                         !.pc = "responded",
                         !.image = image,
                         !.response = JsonResponse(200, "enhancedImageUrl", image)]
    /\ UNCHANGED <<request, apiKey>>
    /\ UNCHANGED <<uiVars, canvasVars>>

\* await response.json() of a successful call rejects.
GatewayDataReject ==
    /\ relay.pc = "awaitData"
    /\ Catch(ErrorMessages.data)
    /\ UNCHANGED <<request, apiKey>>
    /\ UNCHANGED <<uiVars, canvasVars>>

NextRelay ==
    \/ serve
    \/ ReqJson
    \/ \E status \in GatewayStatuses : GatewayResolve(status)
    \/ GatewayReject
    \/ \E read \in BOOLEAN : GatewayText(read)
    \/ \E image \in {Undefined, "", GatewayImage} : GatewayData(image)
    \/ GatewayDataReject

SpecRelay == InitRelay /\ [][NextRelay]_vars

-----------------------------------------------------------------------------
(* Claims *)

Slots == 1..MaxRuns

\* k is n / d rounded to the nearest integer, a half rounded upwards.
IsRounded(k, n, d) == (2 * k - 1) * d <= 2 * n /\ 2 * n < (2 * k + 1) * d

Larger(a, b) == IF a >= b THEN a ELSE b

\* C1: a successful run of enhanceImage on a decoded image of at most
\* 1024 x 1024 publishes a result of exactly twice the width and twice the
\* height, four times the pixels.
C1_SmallImageIsDoubled ==
    \A r \in Slots :
        LET run == runs[r]
        IN  (variant = "canvas" /\ run.pc = "done"
                /\ run.src.w <= 1024 /\ run.src.h <= 1024)
            => /\ run.result.w = 2 * run.src.w
               /\ run.result.h = 2 * run.src.h
               /\ run.result.w * run.result.h = 4 * (run.src.w * run.src.h)
               /\ enhancedImage \in {NoResult, run.result}

C1_Witness ==
    \E r \in Slots :
        /\ variant = "canvas"
        /\ runs[r].pc = "done"
        /\ runs[r].src.w = 500 /\ runs[r].src.h = 300
        /\ enhancedImage = runs[r].result
        /\ enhancedImage.w = 1000 /\ enhancedImage.h = 600

Brightened == {idx \in 1..Len(data) : idx <= i /\ idx % 4 # 0}

AlphaSamples(samples) == {idx \in 1..Len(samples) : idx % 4 = 0}

Clamp(x, lo, hi) == IF x < lo THEN lo ELSE IF x > hi THEN hi ELSE x

\* round(n / d), a half rounded upwards, for n / d in 0..300.
RoundHalfUp(n, d) == CHOOSE k \in 0..300 : IsRounded(k, n, d)

\* clamp(round(c * 1.1) + 10, 0, 255)
ClaimedChannel(c) == Clamp(RoundHalfUp(11 * c, 10) + 10, 0, 255)

\* The inputs whose c * 1.1 + 10 is, as a double, exactly halfway between
\* an even integer below and an odd integer above.
TiesToEvenBelow == {15, 35, 55, 75, 115, 135, 155}

\* C3 as stated: every colour sample c is replaced by
\* clamp(round(c * 1.1) + 10, 0, 255).
C3_AsClaimed ==
    phase = "filter"
    => \A idx \in Brightened : data[idx] = ClaimedChannel(surface[idx])

\* C3, amended: every colour sample c is replaced by an integer nearest to
\* min(255, c * 1.1 + 10), which is clamp(round(c * 1.1) + 10, 0, 255)
\* except for the seven c of TiesToEvenBelow, where it is one less; it lies
\* in 0..255, is 255 wherever c * 1.1 + 10 >= 255, and is never below c.
C3_NearestWithTiesToEven ==
    phase = "filter"
    => \A idx \in Brightened :
           LET c == surface[idx]
               out == data[idx]
               exact10 == IF 11 * c + 100 > 2550 THEN 2550 ELSE 11 * c + 100
           IN  /\ out \in 0..255
               /\ out >= c
               /\ 11 * c + 100 >= 2550 => out = 255
               /\ 10 * out - exact10 \in -5..5
               /\ out = ClaimedChannel(c) - (IF c \in TiesToEvenBelow THEN 1 ELSE 0)

\* A tie (15 becomes 26), a saturated sample, and opaque red becoming
\* (255, 10, 10, 255).
C3_Witness ==
    /\ phase = "filter"
    /\ i = Len(data)
    /\ surface[1] = 15 /\ data[1] = 26
    /\ SubSeq(surface, 5, 8) = <<255, 0, 0, 255>>
    /\ SubSeq(data, 5, 8) = <<255, 10, 10, 255>>

\* C4: the loop and putImageData leave every alpha sample as drawImage
\* made it: the final canvas has the alphas of the resampled one.
C4_AlphaUnchanged ==
    [][ /\ (phase = "filter" /\ phase' = "filter")
            => \A idx \in AlphaSamples(data) : data'[idx] = data[idx]
        /\ (phase = "filter" /\ phase' = "put")
            => /\ Len(surface') = Len(surface)
               /\ \A idx \in AlphaSamples(surface) : surface'[idx] = surface[idx]
      ]_vars

\* The transformed canvas: colours changed, a translucent alpha kept.
C4_Witness ==
    /\ phase = "put"
    /\ surface[4] = 128
    /\ surface[8] = 128
    /\ SubSeq(surface, 5, 7) = <<26, 115, 247>>

Range(seq) == {seq[k] : k \in 1..Len(seq)}

Count(seq, x) == Cardinality({k \in 1..Len(seq) : seq[k] = x})

NoDuplicates(seq) == Cardinality(Range(seq)) = Len(seq)

Finished(run) == run.pc \in {"done", "failed"}

\* C5: a run that fails publishes nothing. No step of an invocation other
\* than its successful end writes enhancedImage; the step on which it fails
\* leaves enhancedImage as it was and ends the invocation, which holds no
\* result and has entered no stage twice.
C5_FailedRunPublishesNothing ==
    [][ \A r \in Slots :
            /\ (runs'[r] # runs[r] /\ runs'[r].pc # "done")
                => enhancedImage' = enhancedImage
            /\ (runs'[r] # runs[r] /\ runs'[r].pc = "failed")
                => /\ Active(runs[r])
                   /\ runs'[r].result = NoResult
                   /\ "publish" \notin Range(runs'[r].stages)
                   /\ NoDuplicates(runs'[r].stages)
                   /\ runs'[r].stages = runs[r].stages
                        \/ \E stage \in {"resize", "transform"} :
                               runs'[r].stages = Append(runs[r].stages, stage)
      ]_vars

\* A remote run has failed on a non-OK response while the result of an
\* earlier operation stays published.
C5_Witness ==
    \E r \in Slots :
        /\ runs[r].pc = "failed"
        /\ runs[r].failedAt = "response"
        /\ enhancedImage # NoResult
        /\ enhancedImage.op # runs[r].op

\* C6: a run that has failed has shown exactly one failure toast and no
\* completion toast, a run that has succeeded exactly one completion toast
\* and no failure toast, wherever the failure came from.
C6_OneNotificationPerRun ==
    \A r \in Slots :
        LET run == runs[r]
            failures == Cardinality({k \in 1..Len(run.toasts) :
                                        run.toasts[k].variant = "destructive"})
        IN  /\ run.pc = "failed"
                => /\ failures = 1
                   /\ Count(run.toasts, FailedToast) = 1
                   /\ Count(run.toasts, CompleteToast) = 0
            /\ run.pc = "done"
                => /\ failures = 0
                   /\ Count(run.toasts, CompleteToast) = 1

C6_Witness ==
    \E r \in Slots :
        /\ runs[r].pc = "failed"
        /\ runs[r].failedAt = "redecode"
        /\ runs[r].toasts = <<StartedToast("enhance"), FailedToast>>
        /\ toast = FailedToast

\* C7: handleFile on a file whose type does not start with "image/" shows
\* the invalid-file toast and changes nothing else; no reader, no
\* originalImage and no invocation ever holds such a file.
C7_NonImageRejected ==
    /\ [](/\ originalImage # Null => StartsWith(originalImage.type, ImagePrefix)
          /\ \A k \in 1..Len(readers) : StartsWith(readers[k].type, ImagePrefix)
          /\ \A r \in Slots :
                 runs[r].pc # "idle" => StartsWith(runs[r].src.type, ImagePrefix))
    /\ [][ \A file \in disk :
               (~StartsWith(file.type, ImagePrefix) /\ handleFile(file))
               => /\ toast' = InvalidFileToast
                  /\ UNCHANGED <<originalImage, enhancedImage, isProcessing,
                                 selectedOperation, readers, runs>>
         ]_vars

\* After a finished run and Upload New, a text file has been turned away.
C7_Witness ==
    /\ toast = InvalidFileToast
    /\ originalImage = Null
    /\ readers = <<>>
    /\ \E r \in Slots : Finished(runs[r])
    /\ \E file \in disk : ~StartsWith(file.type, ImagePrefix)

\* C8: an invocation of enhanceImage whose image did not load has failed at
\* the decode with no canvas created: it entered neither resizeImageIfNeeded
\* nor enhanceImageCanvas.
C8_DecodeFailureAllocatesNothing ==
    \A r \in Slots :
        LET run == runs[r]
        IN  (variant = "canvas" /\ run.pc \notin {"idle", "awaitDecode"}
                /\ run.img.src = "none")
            => /\ run.pc = "failed"
               /\ run.failedAt = "decode"
               /\ run.canvases = 0
               /\ run.stages = <<"decode">>

C8_Witness ==
    \E r \in Slots :
        /\ variant = "canvas"
        /\ runs[r].pc = "failed"
        /\ runs[r].failedAt = "decode"
        /\ ~runs[r].src.ok
        /\ runs[r].canvases = 0

\* C9: while the decode signal of an invocation has not fired, nothing is
\* published, no failure is shown and isProcessing is true; nothing but the
\* signal itself (no timeout, no user action) moves the invocation on.
C9_PendingUntilSignal ==
    /\ [](\A r \in Slots :
              (variant = "canvas" /\ runs[r].pc = "awaitDecode")
              => /\ isProcessing
                 /\ enhancedImage = NoResult
                 /\ runs[r].toasts = <<StartedToast("enhance")>>
                 /\ toast \notin {FailedToast, CompleteToast})
    /\ [][ \A r \in Slots :
               (runs[r].pc = "awaitDecode" /\ runs'[r] # runs[r])
               => (ImgLoad(r) \/ ImgError(r))
         ]_vars

\* The decode is still awaited after Upload New and a new upload.
C9_Witness ==
    \E r \in Slots :
        /\ runs[r].pc = "awaitDecode"
        /\ originalImage # Null
        /\ originalImage # runs[r].src
        /\ isProcessing

\* C10: no user action changes a live invocation, and when every awaited
\* signal arrives in the end (LiveSpec) every live invocation ends, done or
\* failed, and isProcessing becomes false again.
C10_RunsToTheEnd ==
    /\ [][ UserAction
           => \A r \in Slots : Active(runs[r]) => runs'[r] = runs[r] ]_vars
    /\ \A r \in Slots : Active(runs[r]) ~> Finished(runs[r])
    /\ isProcessing ~> ~isProcessing

\* A run has published although Upload New was clicked while it ran.
C10_Witness ==
    \E r \in Slots :
        /\ runs[r].pc = "done"
        /\ originalImage = Null
        /\ enhancedImage = runs[r].result
        /\ ~isProcessing

IsPrefix(s, t) == Len(s) <= Len(t) /\ s = SubSeq(t, 1, Len(s))

\* The stages of a run of enhanceImage on an image of w x h, in order.
StagesFor(w, h) ==
    IF Larger(w, h) > 1024
    THEN <<"decode", "resize", "redecode", "transform", "publish">>
    ELSE <<"decode", "transform", "publish">>

C12_SmallImageSkipsResizer ==
    \A r \in Slots :
        LET run == runs[r]
            w == run.src.w
            h == run.src.h
        IN  (variant = "canvas" /\ run.img.src # "none" /\ Larger(w, h) <= 1024)
            => /\ run.img = [src |-> "original", width |-> w, height |-> h,
                             loaded |-> TRUE]
               /\ run.resized = IdleRun.resized
               /\ "resize" \notin Range(run.stages)
               /\ "redecode" \notin Range(run.stages)
               /\ run.stages[Len(run.stages) - (IF run.pc = "done" THEN 1 ELSE 0)]
                      = "transform"
               /\ run.canvases = 1
               /\ run.pc = "done"
                    => /\ run.result.from = run.src
                       /\ run.result.w = 2 * w
                       /\ run.result.h = 2 * h

\* An image of exactly 1024 x 1024 went from the decode to the transform.
C12_Witness ==
    \E r \in Slots :
        /\ variant = "canvas"
        /\ runs[r].pc = "done"
        /\ runs[r].src.w = 1024 /\ runs[r].src.h = 1024
        /\ runs[r].stages = <<"decode", "transform", "publish">>
        /\ runs[r].img.src = "original"
        /\ runs[r].canvases = 1

\* C13 as stated: whenever resizeImageIfNeeded has computed the size of its
\* canvas for a decoded image (positive width and height, limit 1024), the
\* width and the height it computed are both at least 1.
C13_TargetsPositive ==
    \A r \in Slots :
        LET run == runs[r]
        IN  (variant = "canvas" /\ run.src.w >= 1 /\ run.src.h >= 1
                /\ "redecode" \in Range(run.stages))
            => /\ run.resized.w >= 1
               /\ run.resized.h >= 1

\* The colour samples of an image resolved by enhanceImageCanvas.
ColourSamples(samples) == {idx \in 1..Len(samples) : idx % 4 # 0}

RECURSIVE SumOver(_, _)
SumOver(samples, indices) ==
    IF indices = {} THEN 0
    ELSE LET idx == CHOOSE k \in indices : TRUE
         IN  samples[idx] + SumOver(samples, indices \ {idx})

\* The brightness of an image of one colour: the sum of its colour samples.
Brightness(samples) == SumOver(samples, ColourSamples(samples))

Requested == IF request.operation = Undefined THEN "enhance" ELSE request.operation

Answered == relay.pc = "responded" /\ request.method = "POST"

C16_AtMostOneGatewayCall ==
    /\ [](/\ relay.calls \in {0, 1}
          /\ relay.calls = 1
               => /\ request.method # "OPTIONS"
                  /\ request.parses
                  /\ ~Falsy(request.imageUrl)
                  /\ ~Falsy(apiKey)
                  /\ relay.url = request.imageUrl
          /\ relay.pc \in {"awaitFetch", "awaitText", "awaitData"}
               => relay.calls = 1)
    /\ [][ relay'.calls # relay.calls
           => /\ relay.pc = "awaitJson"
              /\ relay.calls = 0
              /\ relay'.calls = 1
              /\ relay'.pc = "awaitFetch" ]_vars

\* The gateway failed with 503 and the handler answered 500 after its one call.
C16_Witness ==
    /\ relay.pc = "responded"
    /\ relay.calls = 1
    /\ relay.gateway = 503
    /\ relay.response = JsonResponse(500, "error", "Failed to enhance image")

\* C17 as stated: the text relayed to the gateway is the table's entry for
\* the requested operation when the table has one, and the entry of
\* enhance when the operation is absent or is no key of the table; each
\* operation of the client has an entry of its own.
C17_PromptOfOperation ==
    /\ relay.calls = 1
       => relay.text = IF Requested \in DOMAIN operationPrompts
                       THEN operationPrompts[Requested]
                       ELSE operationPrompts.enhance
    /\ operations \subseteq DOMAIN operationPrompts
    /\ \A a, b \in operations :
           a # b => operationPrompts[a] # operationPrompts[b]

Outstanding == {r \in Slots : Active(runs[r])}

\* Invocation r starts on this step / ends on this step.
Starts(r) == ~Active(runs[r]) /\ Active(runs'[r])
Ends(r) == Active(runs[r]) /\ ~Active(runs'[r])

\* C18: at most one invocation of enhanceImage / processImage is
\* outstanding; an invocation starts only while none is outstanding and
\* isProcessing is false, whatever the user did before (operation clicks,
\* uploads, Upload New).
C18_AtMostOneRun ==
    /\ [](/\ Cardinality(Outstanding) <= 1
          /\ Outstanding # {} => isProcessing)
    /\ [][ \A r \in Slots :
               Starts(r) => /\ Outstanding = {}
                            /\ ~isProcessing
                            /\ \A q \in Slots \ {r} : runs'[q] = runs[q] ]_vars

\* One request is outstanding after Upload New and the upload of another
\* file; the operation buttons are rendered again, and disabled.
C18_Witness ==
    \E r \in Slots :
        /\ variant = "remote"
        /\ runs[r].pc = "awaitFetch"
        /\ Outstanding = {r}
        /\ originalImage # Null
        /\ originalImage # runs[r].src
        /\ isProcessing

\* C19 as stated: the img handed to enhanceImageCanvas has had a load event
\* for the source it holds then, in the oversized branch the resized copy.
C19_TransformOnLoadedHandle ==
    \A r \in Slots :
        (variant = "canvas" /\ "transform" \in Range(runs[r].stages))
        => runs[r].img.loaded

\* C20: isProcessing is true exactly while an invocation is outstanding: it
\* becomes true on the step that starts one (from an original image that is
\* loaded), false on the step that ends one, done or failed, and changes on
\* no other step; while no original image is loaded no step starts one.
C20_ProcessingWhileRunning ==
    /\ [](isProcessing <=> Outstanding # {})
    /\ [][ /\ \A r \in Slots :
                 /\ Starts(r) => /\ ~isProcessing /\ isProcessing'
                                 /\ originalImage # Null
                                 /\ runs'[r].src = originalImage
                                 /\ runs[r].pc \in {"idle", "done", "failed"}
                 /\ Ends(r) => /\ isProcessing /\ ~isProcessing'
                               /\ runs'[r].pc \in {"done", "failed"}
           /\ isProcessing' # isProcessing
                 => \E r \in Slots : Starts(r) \/ Ends(r)
           /\ originalImage = Null
                 => \A r \in Slots : ~Starts(r)
         ]_vars

\* A request has failed on an unreadable response and the component is idle
\* again, with the image still loaded.
C20_Witness ==
    \E r \in Slots :
        /\ variant = "remote"
        /\ runs[r].pc = "failed"
        /\ runs[r].failedAt = "body"
        /\ Outstanding = {}
        /\ ~isProcessing
        /\ originalImage = runs[r].src

\* C21 as stated: after a resize both sides of the resized copy are within
\* 1..1024, the side that is not set to 1024 is within half a pixel of
\* other * 1024 / larger, and a square image becomes 1024 x 1024.
C21_ResizedWithinBounds ==
    \A r \in Slots :
        LET run == runs[r]
            w == run.src.w
            h == run.src.h
            other == IF w > h THEN h ELSE w
            target == IF w > h THEN run.resized.h ELSE run.resized.w
            drift2 == 2 * (target * Larger(w, h) - other * 1024)
        IN  (variant = "canvas" /\ "redecode" \in Range(run.stages))
            => /\ run.resized.w \in 1..1024
               /\ run.resized.h \in 1..1024
               /\ drift2 <= Larger(w, h) /\ -drift2 <= Larger(w, h)
               /\ w = h => run.resized = [w |-> 1024, h |-> 1024]

\* C22: no step of an invocation of enhanceImage / processImage, from its
\* start to its end, writes originalImage, and the image the invocation
\* works on stays the one it started with; originalImage changes only when
\* a file has been read (reader.onload) or Upload New is clicked.
C22_RunLeavesOriginalImage ==
    [][ /\ \A r \in Slots :
              (runs'[r] # runs[r])
              => /\ originalImage' = originalImage
                 /\ Active(runs[r]) => runs'[r].src = runs[r].src
        /\ originalImage' # originalImage
              => /\ runs' = runs
                 /\ \/ UploadNew
                    \/ \E k \in 1..Len(readers) : ReaderLoad(k)
      ]_vars

\* A run on an oversized image has failed at the re-decode and the image is
\* still the uploaded one.
C22_Witness ==
    \E r \in Slots :
        /\ variant = "canvas"
        /\ runs[r].pc = "failed"
        /\ runs[r].failedAt = "redecode"
        /\ originalImage = runs[r].src
        /\ originalImage # Null
        /\ enhancedImage = NoResult

\* C23 as stated: whenever enhancedImage is non-null it is the result of a
\* run started on the image that originalImage holds now.
C23_ResultOfCurrentImage ==
    enhancedImage # NoResult => enhancedImage.from = originalImage

\* C24 as stated: whenever an operation button is rendered as selected
\* (the buttons are rendered, selectedOperation is its id and enhancedImage
\* is non-null), enhancedImage was produced by that operation.
C24_SelectedProducedImage ==
    (variant = "remote" /\ originalImage # Null /\ enhancedImage # NoResult)
    => enhancedImage.op = selectedOperation

\* C25: every response of the handler has the CORS headers; the response
\* to OPTIONS has no body, and every other response has Content-Type
\* application/json and a body with one property, enhancedImageUrl on a
\* 200 and error on every other status, with a value.
C25_CorsAndJsonBody ==
    relay.pc = "responded"
    => LET response == relay.response
       IN  /\ response.cors
           /\ IF request.method = "OPTIONS"
              THEN response = Response(200, "none", Undefined, TRUE, Undefined)
              ELSE /\ response.contentType = "application/json"
                   /\ response.property \in {"enhancedImageUrl", "error"}
                   /\ response.property = "enhancedImageUrl" <=> response.status = 200
                   /\ response.property = "error"
                        <=> response.status \in {400, 402, 429, 500}
                   /\ ~Falsy(response.value)

\* A body that is not JSON was answered 500, with the CORS headers and an
\* error in a JSON body.
C25_Witness ==
    /\ relay.pc = "responded"
    /\ request.method = "POST"
    /\ ~request.parses
    /\ relay.response = Response(500, "error", ErrorMessages.json, TRUE,
                                 "application/json")

====
